---------------------------- MODULE Spec2Model ----------------------------
(***************************************************************************)
(* A model of clk_extension_eth (src/python/eth.py): the chain walker      *)
(* (Eth.walk_blocks, walk_transactions, history, take_contracts), the      *)
(* contract call command (ContractCallerArgs, ContractMethod, _call), the  *)
(* response normaliser (make_serializable) and the evm time commands       *)
(* (move_to_time, increaseTime, mine).                                     *)
(*                                                                         *)
(* Python strings are sequences of one-character strings, so that          *)
(* startswith, endswith, split, int(), bytes.fromhex and json.loads are    *)
(* computed rather than assumed.  Each command is one run of the program;  *)
(* the variable cmd says which command this run is, and the variables of   *)
(* the other commands keep their idle values.                              *)
(***************************************************************************)
EXTENDS Integers, Sequences, FiniteSets, TLC

VARIABLES
    cmd,        \* which command this process runs: "walk", "call", "dump", "time"
    \* ---- the node (what the RPC calls answer from)
    blocks,     \* block hash -> block (hash, parentHash, timestamp, transactions)
    latest,     \* hash of the head block, get_block('latest')
    receipts,   \* transaction hash -> receipt (from, to, contractAddress)
    \* ---- Eth.walk_blocks / walk_transactions / history / take_contracts
    op,         \* the generator being drained
    address,    \* history(address)
    limit,      \* walk_transactions(limit)
    wpc,        \* position of the walk_blocks generator
    b,          \* local b of walk_blocks
    yielded,    \* blocks walk_blocks has yielded
    fetched,    \* number of get_block calls made
    accum,      \* local accum of walk_transactions
    walked,     \* receipts walk_transactions has yielded
    contracts,  \* what take_contracts has yielded
    \* ---- the contract call command: ContractCallerArgs, ContractMethod, _call
    abi,        \* config.contractmethod.abi: inputs and stateMutability
    tokens,     \* the command line's args tokens
    transact,   \* the --transact/--no-transact flag
    number,     \* ContractCallerArgs.number
    args,       \* ContractMethod.args: what convert returned, token by token
    bound,      \* for each token converted, the index of the input coerce chose
    cpc,        \* position of the call command
    asked,      \* the answers click.confirm returned, one per call of it
    executed,   \* the contract operations made: "call", "transact"
    logged,     \* the names LOGGER.error reported missing
    exitStatus, \* status given to exit(), NoInt while none
    \* ---- make_serializable
    heap,       \* the objects: object id -> object
    data,       \* id of the object handed to make_serializable
    out,        \* id of what make_serializable(data) returned
    again,      \* id of what make_serializable(out) returned
    spc,        \* position of the normaliser
    \* ---- eth evm move_to_time / increaseTime / mine
    time,       \* the requested time, time.timestamp(), in ticks
    and_mine,   \* the --and-mine/--dont-mine flag
    tpc,        \* position of the time command
    cmdline,    \* the arguments move_to_time hands to run()
    rpcs,       \* the raw requests made of the node, in order
    error,      \* the times the UsageError names, <<>> while none
    skew        \* the node's clock offset, set by evm_increaseTime

dumpVars == <<heap, data, out, again, spc>>
timeVars == <<time, and_mine, tpc, cmdline, rpcs, error, skew>>

callVars == <<abi, tokens, transact, number, args, bound, cpc, asked, executed,
              logged, exitStatus>>
walkVars == <<op, address, limit, wpc, b, yielded, fetched, accum, walked, contracts>>
nodeVars == <<blocks, latest, receipts>>

-----------------------------------------------------------------------------
(* Bounds of the model *)

MaxBlocks == 2          \* N: blocks on top of genesis
MaxLimit == 3           \* largest limit given to walk_transactions
MaxTokens == 2          \* most args tokens on a command line
MaxDepth == 2           \* nesting depth of the objects normalised
MaxTime == 6            \* latest time, in seconds, of a block or a request
TicksPerSecond == 2     \* resolution of the float time.timestamp()

(* Program constants *)

ZeroHash == 0           \* HexBytes('0x00..00'), the parent hash of genesis

None == "None"          \* Python's None, where a string may stand

\* an optional integer: NoInt is None, Some(n) is the integer n
NoInt == <<>>
Some(n) == <<n>>

-----------------------------------------------------------------------------
(* Sequence helpers *)

RECURSIVE Flatten(_)
Flatten(ss) == IF ss = <<>> THEN <<>> ELSE Head(ss) \o Flatten(Tail(ss))


-----------------------------------------------------------------------------
(* Python strings, as sequences of characters *)

Digits == <<"0","1","2","3","4","5","6","7","8","9">>
HexLower == <<"a","b","c","d","e","f">>
HexUpper == <<"A","B","C","D","E","F">>
Lowercase == <<"a","b","c","d","e","f","g","h","i","j","k","l","m",
               "n","o","p","q","r","s","t","u","v","w","x","y","z">>
Uppercase == <<"A","B","C","D","E","F","G","H","I","J","K","L","M",
               "N","O","P","Q","R","S","T","U","V","W","X","Y","Z">>

Range(s) == {s[i] : i \in 1..Len(s)}
IndexOf(c, s) == CHOOSE i \in 1..Len(s) : s[i] = c

\* ord(c), for the characters the model's strings are made of
Ord(c) ==
    IF c \in Range(Digits) THEN 47 + IndexOf(c, Digits)
    ELSE IF c \in Range(Uppercase) THEN 64 + IndexOf(c, Uppercase)
    ELSE IF c \in Range(Lowercase) THEN 96 + IndexOf(c, Lowercase)
    ELSE IF c = "," THEN 44
    ELSE IF c = "=" THEN 61
    ELSE IF c = "[" THEN 91
    ELSE 93

\* str.lower on one character
LowerChar(c) ==
    IF c \in Range(Uppercase) THEN Lowercase[IndexOf(c, Uppercase)] ELSE c

Lower(s) == [i \in 1..Len(s) |-> LowerChar(s[i])]

StartsWith(s, p) == Len(s) >= Len(p) /\ SubSeq(s, 1, Len(p)) = p
EndsWith(s, p) == Len(s) >= Len(p) /\ SubSeq(s, Len(s) - Len(p) + 1, Len(s)) = p
Contains(s, c) == \E i \in 1..Len(s) : s[i] = c

\* s.split(c)
RECURSIVE Split(_, _)
Split(s, c) ==
    IF ~Contains(s, c) THEN <<s>>
    ELSE LET i == CHOOSE k \in 1..Len(s) :
                      s[k] = c /\ \A j \in 1..(k - 1) : s[j] # c
         IN  <<SubSeq(s, 1, i - 1)>> \o Split(SubSeq(s, i + 1, Len(s)), c)

AllDigits(s) == s # <<>> /\ \A i \in 1..Len(s) : s[i] \in Range(Digits)

RECURSIVE DecimalValue(_)
DecimalValue(s) ==
    IF s = <<>> THEN 0
    ELSE 10 * DecimalValue(SubSeq(s, 1, Len(s) - 1)) + (IndexOf(s[Len(s)], Digits) - 1)

IsHexDigit(c) == c \in Range(Digits) \cup Range(HexLower) \cup Range(HexUpper)
HexValue(c) ==
    IF c \in Range(Digits) THEN IndexOf(c, Digits) - 1
    ELSE IF c \in Range(HexLower) THEN 9 + IndexOf(c, HexLower)
    ELSE 9 + IndexOf(c, HexUpper)

-----------------------------------------------------------------------------
(* Python values: a tag and a payload *)

IntV(n) == [t |-> "int", v |-> n]
BoolV(x) == [t |-> "bool", v |-> x]
BytesV(bs) == [t |-> "bytes", v |-> bs]
StrV(s) == [t |-> "str", v |-> s]
ListV(xs) == [t |-> "list", v |-> xs]
NullV == [t |-> "null", v |-> <<>>]
Raised(e) == [t |-> "raise", v |-> e]

\* int(val)
int(val) == IF AllDigits(val) THEN IntV(DecimalValue(val)) ELSE Raised("ValueError")

\* bytes.fromhex(s)
fromhex(s) ==
    IF Len(s) % 2 = 0 /\ \A i \in 1..Len(s) : IsHexDigit(s[i])
    THEN BytesV([i \in 1..(Len(s) \div 2) |->
                    16 * HexValue(s[2 * i - 1]) + HexValue(s[2 * i])])
    ELSE Raised("ValueError")

\* w3.to_bytes(text=val): the UTF-8 encoding
to_bytes(text) == BytesV([i \in 1..Len(text) |-> Ord(text[i])])

\* json.loads(s), for scalars and arrays of scalars
JsonScalar(s) ==
    IF s = <<"t","r","u","e">> THEN BoolV(TRUE)
    ELSE IF s = <<"f","a","l","s","e">> THEN BoolV(FALSE)
    ELSE IF s = <<"n","u","l","l">> THEN NullV
    ELSE IF AllDigits(s) /\ (Len(s) = 1 \/ s[1] # "0") THEN IntV(DecimalValue(s))
    ELSE Raised("ValueError")

json_loads(s) ==
    IF Len(s) >= 2 /\ s[1] = "[" /\ s[Len(s)] = "]"
    THEN LET inner == SubSeq(s, 2, Len(s) - 1)
             elems == IF inner = <<>> THEN <<>>
                      ELSE LET parts == Split(inner, ",")
                           IN  [i \in 1..Len(parts) |-> JsonScalar(parts[i])]
         IN  IF \E i \in 1..Len(elems) : elems[i].t = "raise"
             THEN Raised("ValueError")
             ELSE ListV(elems)
    ELSE JsonScalar(s)

-----------------------------------------------------------------------------
(* The node: a chain of blocks linked by parent hash, and its receipts *)

Addresses == {"0xA", "0xB", "0xC", "0xD"}

Receipt(from, to, contractAddress) ==
    [from |-> from, to |-> to, contractAddress |-> contractAddress]

\* the receipts a block may hold: the creation of contract 0xC by 0xA, a
\* transfer from 0xB to 0xA, the creation of contract 0xD by 0xB
Creation == Receipt("0xA", None, "0xC")
Transfer == Receipt("0xB", "0xA", None)
OtherCreation == Receipt("0xB", None, "0xD")
BlockContents ==
    { <<>>, <<Creation>>, <<Transfer>>, <<OtherCreation, Creation>>,
      <<Creation, Creation>> }

NoBlock == [hash |-> -1, parentHash |-> -1, timestamp |-> 0, transactions |-> <<>>]

\* the chain with content[i] in the i-th block counted from genesis (hash i);
\* a transaction hash is <<block hash, index in the block>>
MakeBlocks(content, stamps) ==
    [h \in 1..Len(content) |->
        [hash |-> h, parentHash |-> h - 1, timestamp |-> stamps[h],
         transactions |-> [j \in 1..Len(content[h]) |-> <<h, j>>]]]

MakeReceipts(content) ==
    [t \in {<<h, j>> : h \in 1..Len(content), j \in 1..2} \cap
           UNION {{<<h, j>> : j \in 1..Len(content[h])} : h \in 1..Len(content)}
        |-> content[t[1]][t[2]]]

\* w3.eth.get_block
get_block(h) == IF h \in DOMAIN blocks THEN blocks[h] ELSE NoBlock

\* w3.eth.wait_for_transaction_receipt
wait_for_transaction_receipt(hash) == receipts[hash]

-----------------------------------------------------------------------------
(* Eth.walk_blocks, Eth.walk_transactions, Eth.history, Eth.take_contracts *)

\* b_hash == HexBytes('0x00...00')
AtGenesisOffByOne(b_hash) == b_hash <= ZeroHash + 1
AtGenesis(b_hash) == b_hash = ZeroHash

\* if limit and accum >= limit
LimitReached(lim, acc) == lim # NoInt /\ lim[1] # 0 /\ acc >= lim[1]

\* address in [tx.get("contractAddress"), tx["from"], tx["to"]]
InvolvesSenderOnly(tx, addr) == addr = tx.from
Involves(tx, addr) == addr = tx.contractAddress \/ addr = tx.from \/ addr = tx.to

history(txs, addr) == SelectSeq(txs, LAMBDA tx : Involves(tx, addr))

\* if tx["contractAddress"]
filter_contract(txs) == SelectSeq(txs, LAMBDA tx : tx.contractAddress # None)

take_contracts(txs) ==
    LET kept == filter_contract(txs)
    IN  [i \in 1..Len(kept) |-> kept[i].contractAddress]

WalkIdle ==
    /\ op = None /\ address = None /\ limit = NoInt /\ wpc = "idle"
    /\ b = NoBlock /\ yielded = <<>> /\ fetched = 0 /\ accum = 0
    /\ walked = <<>> /\ contracts = <<>>

WalkInit ==
    /\ \E n \in 1..(MaxBlocks + 1) : \E content \in [1..n -> BlockContents] :
          /\ blocks = MakeBlocks(content, [h \in 1..n |-> h])
          /\ latest = n
          /\ receipts = MakeReceipts(content)
    /\ \/ op = "walk_blocks" /\ limit = NoInt /\ address = None
       \/ /\ op = "walk_transactions" /\ address = None
          /\ limit \in {NoInt} \cup {Some(n) : n \in 0..MaxLimit}
       \/ op = "take_contracts" /\ limit = NoInt /\ address \in Addresses
    /\ wpc = "start" /\ b = NoBlock /\ yielded = <<>> /\ fetched = 0
    /\ accum = 0 /\ walked = <<>> /\ contracts = <<>>

\* b = self.w3.eth.get_block('latest')
WalkStart ==
    /\ cmd = "walk" /\ wpc = "start"
    /\ b' = get_block(latest)
    /\ fetched' = fetched + 1
    /\ wpc' = "loop"
    /\ UNCHANGED <<op, address, limit, yielded, accum, walked, contracts>>
    /\ UNCHANGED <<cmd, nodeVars, callVars, dumpVars, timeVars>>

\* while b: yield b, the consumer being the caller of walk_blocks itself
WalkYieldBlock ==
    /\ cmd = "walk" /\ wpc = "loop" /\ b # NoBlock
    /\ op = "walk_blocks"
    /\ yielded' = Append(yielded, b)
    /\ wpc' = "resumed"
    /\ UNCHANGED <<op, address, limit, b, fetched, accum, walked, contracts>>
    /\ UNCHANGED <<cmd, nodeVars, callVars, dumpVars, timeVars>>

\* while b: yield b, into the body of walk_transactions' for loop, whose
\* receipts flow through history, filter_contract and take_contracts
WalkYieldTransactions ==
    /\ cmd = "walk" /\ wpc = "loop" /\ b # NoBlock
    /\ op \in {"walk_transactions", "take_contracts"}
    /\ LET txs == [i \in 1..Len(b.transactions) |->
                        wait_for_transaction_receipt(b.transactions[i])]
       IN  /\ yielded' = Append(yielded, b)
           /\ walked' = walked \o txs
           /\ accum' = accum + Len(txs)
           /\ contracts' = IF op = "take_contracts"
                           THEN contracts \o take_contracts(history(txs, address))
                           ELSE contracts
           /\ wpc' = IF LimitReached(limit, accum + Len(txs))
                     THEN "closed" ELSE "resumed"
    /\ UNCHANGED <<op, address, limit, b, fetched>>
    /\ UNCHANGED <<cmd, nodeVars, callVars, dumpVars, timeVars>>

\* b_hash = b.get('parentHash'); if b_hash == HexBytes(0): break
WalkBreak ==
    /\ cmd = "walk" /\ wpc = "resumed"
    /\ AtGenesis(b.parentHash)
    /\ wpc' = "exhausted"
    /\ UNCHANGED <<op, address, limit, b, yielded, fetched, accum, walked, contracts>>
    /\ UNCHANGED <<cmd, nodeVars, callVars, dumpVars, timeVars>>

\* else: b = self.w3.eth.get_block(b_hash)
WalkFetch ==
    /\ cmd = "walk" /\ wpc = "resumed"
    /\ ~AtGenesis(b.parentHash)
    /\ b' = get_block(b.parentHash)
    /\ fetched' = fetched + 1
    /\ wpc' = IF get_block(b.parentHash) = NoBlock THEN "raised" ELSE "loop"
    /\ UNCHANGED <<op, address, limit, yielded, accum, walked, contracts>>
    /\ UNCHANGED <<cmd, nodeVars, callVars, dumpVars, timeVars>>

-----------------------------------------------------------------------------
(* ContractCallerArgs.coerce / convert, ContractMethod, _call *)

T_list == <<"[","]">>
T_uint == <<"u","i","n","t">>
T_bool == <<"b","o","o","l">>
T_byte == <<"b","y","t","e">>
P_0x == <<"0","x">>

\* val in ("true", "True", "1", "t", "yes")
Truthy == { <<"t","r","u","e">>, <<"T","r","u","e">>, <<"1">>, <<"t">>,
            <<"y","e","s">> }

\* the if / elif chain of coerce on inp["type"]
CoerceUintFirst(type, val) ==
    IF StartsWith(type, T_uint) THEN int(val)
    ELSE IF EndsWith(type, T_list) THEN json_loads(val)
    ELSE IF type = T_bool THEN BoolV(val \in Truthy)
    ELSE IF StartsWith(type, T_byte)
         THEN IF StartsWith(val, P_0x)
              THEN fromhex(SubSeq(val, 3, Len(val)))
              ELSE to_bytes(val)
    ELSE StrV(val)
CoerceByType(type, val) ==
    IF EndsWith(type, T_list) THEN json_loads(val)
    ELSE IF StartsWith(type, T_uint) THEN int(val)
    ELSE IF type = T_bool THEN BoolV(val \in Truthy)
    ELSE IF StartsWith(type, T_byte)
         THEN IF StartsWith(val, P_0x)
              THEN fromhex(SubSeq(val, 3, Len(val)))
              ELSE to_bytes(val)
    ELSE StrV(val)

\* the input coerce picks: by name when key is given, else inputs[number - 1];
\* 0 when the list index raises IndexError (indexes here count from 1)
PickInput(inputs, num, key) ==
    IF key # <<>>
    THEN IF \E i \in 1..Len(inputs) : inputs[i].name = key
         THEN CHOOSE i \in 1..Len(inputs) :
                  inputs[i].name = key /\ \A j \in 1..(i - 1) : inputs[j].name # key
         ELSE 0
    ELSE IF num \in 1..Len(inputs) THEN num ELSE 0

\* coerce(key, val): (key, val) and the input chosen
coerce(inputs, num, key, val) ==
    LET i == PickInput(inputs, num, key)
    IN  IF i = 0
        THEN [key |-> key, val |-> Raised("IndexError"), inp |-> 0]
        ELSE [key |-> inputs[i].name,
              val |-> CoerceByType(inputs[i].type, val), inp |-> i]

\* self.number += 1
NextNumberPositionalOnly(num, value) == IF Contains(value, "=") THEN num ELSE num + 1
NextNumber(num, value) == num + 1

\* convert(value, param, ctx) after the increment: {key: val}, or val alone
\* when the input has no name
convert(inputs, num, value) ==
    LET r == IF Contains(value, "=")
             THEN LET parts == Split(value, "=")
                  IN  IF Len(parts) # 2
                      THEN [key |-> <<>>, val |-> Raised("ValueError"), inp |-> 0]
                      ELSE coerce(inputs, num, parts[1], parts[2])
             ELSE coerce(inputs, num, <<>>, value)
    IN  [dict |-> r.key # <<>> /\ r.val.t # "raise",
         key |-> r.key, val |-> r.val, inp |-> r.inp]

\* ContractMethod._kwargs: the dict arguments merged, later ones winning
RECURSIVE KwargsOf(_)
KwargsOf(as) ==
    IF as = <<>> THEN <<>>
    ELSE LET rest == KwargsOf(SubSeq(as, 1, Len(as) - 1))
             a == as[Len(as)]
         IN  IF a.dict
             THEN [k \in (DOMAIN rest) \cup {a.key} |->
                      IF k = a.key THEN a.val ELSE rest[k]]
             ELSE rest

\* ContractMethod._args
ArgsOf(as) == SelectSeq(as, LAMBDA a : ~a.dict)

needed_names(inputs) == {inputs[i].name : i \in 1..Len(inputs)} \ {<<>>}
given_names(as) == DOMAIN KwargsOf(as)
MissingSwapped(inputs, as) == given_names(as) \ needed_names(inputs)
missing_names(inputs, as) == needed_names(inputs) \ given_names(as)

\* transact as the if / else on the flag leaves it, and whether click.confirm
\* was called; flag is the option (<<>> when not given), answer is what
\* click.confirm returns
DispatchInverted(flag, mutability, answer) ==
    IF flag = <<>>
    THEN [transact |-> mutability = "view", asked |-> FALSE]
    ELSE IF ~flag[1] THEN [transact |-> FALSE, asked |-> FALSE]
    ELSE IF mutability # "view" THEN [transact |-> TRUE, asked |-> FALSE]
    ELSE [transact |-> answer, asked |-> TRUE]
Dispatch(flag, mutability, answer) ==
    IF flag = <<>>
    THEN [transact |-> mutability # "view", asked |-> FALSE]
    ELSE IF ~flag[1] THEN [transact |-> FALSE, asked |-> FALSE]
    ELSE IF mutability # "view" THEN [transact |-> TRUE, asked |-> FALSE]
    ELSE [transact |-> answer, asked |-> TRUE]

Input(name, type) == [name |-> name, type |-> type]

InputsAB == << Input(<<"a">>, <<"u","i","n","t","2","5","6">>),
               Input(<<"b">>, T_bool) >>
InputsA == << Input(<<"a">>, <<"u","i","n","t","2","5","6">>) >>
InputsUnnamed == << Input(<<>>, <<"u","i","n","t","2","5","6">>),
                    Input(<<"b">>, <<"b","y","t","e","s","3","2">>) >>
InputLists == {InputsAB, InputsA, InputsUnnamed}

TokenSet ==
    { <<"a","=","1">>, <<"b","=","t">>, <<"7">>, <<"=","5">>,
      <<"a","=","1","=","2">>, <<"c","=","1">>, <<"b","=","0","x","a","b">>,
      <<"a","=","x">> }

TypeSet ==
    { <<"u","i","n","t","2","5","6">>, <<"u","i","n","t","8">>,
      <<"u","i","n","t","2","5","6","[","]">>, <<"b","y","t","e","s","3","2">>,
      <<"b","y","t","e","s">>, <<"b","y","t","e","s","3","2","[","]">>,
      T_bool, <<"b","o","o","l","[","]">>, <<"a","d","d","r","e","s","s">>,
      <<"s","t","r","i","n","g">>, <<"i","n","t","2","5","6">> }

RawSet ==
    { <<"4","2">>, <<"t","r","u","e">>, <<"T","r","u","e">>, <<"T","R","U","E">>,
      <<"1">>, <<"t">>, <<"T">>, <<"y","e","s">>, <<"Y","e","s">>,
      <<"0","x","a","b","c","d">>, <<"0","x","a","b","c">>, <<"a","b","c">>,
      <<"[","1",",","2","]">>, <<"0">>, <<"f","a","l","s","e">>, <<>> }

Mutabilities == {"view", "pure", "nonpayable"}
Flags == {<<>>, <<TRUE>>, <<FALSE>>}

CallIdle ==
    /\ abi = [inputs |-> <<>>, stateMutability |-> None]
    /\ tokens = <<>> /\ transact = <<>> /\ number = 0 /\ args = <<>>
    /\ bound = <<>> /\ cpc = "idle" /\ asked = <<>> /\ executed = <<>>
    /\ logged = {} /\ exitStatus = NoInt

\* a command line: either some tokens for one of the functions of InputLists,
\* or one token, named or positional, for a function of one input x
CallInit ==
    /\ \/ /\ \E ins \in InputLists, m \in Mutabilities :
                abi = [inputs |-> ins, stateMutability |-> m]
          /\ \E n \in 0..MaxTokens : tokens \in [1..n -> TokenSet]
          /\ transact \in Flags
       \/ /\ \E ty \in TypeSet :
                abi = [inputs |-> <<Input(<<"x">>, ty)>>, stateMutability |-> "view"]
          /\ \E raw \in RawSet : tokens \in {<<raw>>, << <<"x","=">> \o raw >>}
          /\ transact = <<>>
    /\ number = 0 /\ args = <<>> /\ bound = <<>> /\ cpc = "parse"
    /\ asked = <<>> /\ executed = <<>> /\ logged = {} /\ exitStatus = NoInt

\* click hands one token to ContractCallerArgs.convert
Convert ==
    /\ cmd = "call" /\ cpc = "parse" /\ Len(args) < Len(tokens)
    /\ LET value == tokens[Len(args) + 1]
           num == NextNumber(number, value)
           r == convert(abi.inputs, num, value)
       IN  /\ number' = num
           /\ r.val.t # "raise"
           /\ args' = Append(args, [dict |-> r.dict, key |-> r.key, val |-> r.val])
           /\ bound' = Append(bound, r.inp)
    /\ UNCHANGED <<abi, tokens, transact, cpc, asked, executed, logged, exitStatus>>
    /\ UNCHANGED <<cmd, nodeVars, walkVars, dumpVars, timeVars>>

\* convert raises (IndexError, ValueError): the command ends there
ConvertRaises ==
    /\ cmd = "call" /\ cpc = "parse" /\ Len(args) < Len(tokens)
    /\ LET value == tokens[Len(args) + 1]
           num == NextNumber(number, value)
           r == convert(abi.inputs, num, value)
       IN  /\ number' = num
           /\ r.val.t = "raise"
           /\ cpc' = "raised"
    /\ UNCHANGED <<abi, tokens, transact, args, bound, asked, executed, logged,
                   exitStatus>>
    /\ UNCHANGED <<cmd, nodeVars, walkVars, dumpVars, timeVars>>

\* ContractMethod.check
check(inputs, as) == missing_names(inputs, as) = {}

\* _call: if not config.contractmethod.check(): exit(1)
CallMissing ==
    /\ cmd = "call" /\ cpc = "parse" /\ Len(args) = Len(tokens)
    /\ ~check(abi.inputs, args)
    /\ logged' = missing_names(abi.inputs, args)
    /\ exitStatus' = Some(1)
    /\ cpc' = "exited"
    /\ UNCHANGED <<abi, tokens, transact, number, args, bound, asked, executed>>
    /\ UNCHANGED <<cmd, nodeVars, walkVars, dumpVars, timeVars>>

\* _call past the check: transact() or call(), after click.confirm if needed
CallDispatch ==
    /\ cmd = "call" /\ cpc = "parse" /\ Len(args) = Len(tokens)
    /\ check(abi.inputs, args)
    /\ \E answer \in BOOLEAN :
          LET d == Dispatch(transact, abi.stateMutability, answer)
          IN  /\ asked' = IF d.asked THEN Append(asked, answer) ELSE asked
              /\ executed' = Append(executed, IF d.transact THEN "transact" ELSE "call")
    /\ cpc' = "done"
    /\ UNCHANGED <<abi, tokens, transact, number, args, bound, logged, exitStatus>>
    /\ UNCHANGED <<cmd, nodeVars, walkVars, dumpVars, timeVars>>

-----------------------------------------------------------------------------
(* make_serializable / serializable_dict *)

\* Objects live in a heap, a sequence whose indexes are the objects' ids.
\* A dict or an AttributeDict holds a sequence of items (k, val) of ids, with
\* keys that differ, a list or a tuple a sequence of ids, a HexBytes its
\* bytes, a scalar its value.
DictV(kind, items) == [t |-> kind, v |-> items]
Item(k, val) == [k |-> k, val |-> val]
HexBytesV(bs) == [t |-> "HexBytes", v |-> bs]
TupleV(xs) == [t |-> "tuple", v |-> xs]

\* a new object: the heap with it, and its id
Alloc(h, node) == [h |-> Append(h, node), r |-> Len(h) + 1]

HexChars == Digits \o HexLower

\* HexBytes.hex(): "0x" and two lowercase digits a byte
hex(bs) ==
    StrV(P_0x \o Flatten([i \in 1..Len(bs) |->
            <<HexChars[(bs[i] \div 16) + 1], HexChars[(bs[i] % 16) + 1]>>]))

\* {key: value for ...} over the ids k1, v1, k2, v2, ...: a key equal to one
\* met before keeps that one's place and key and takes the new value
RECURSIVE DictOf(_, _)
DictOf(h, refs) ==
    IF refs = <<>> THEN <<>>
    ELSE LET rest == DictOf(h, SubSeq(refs, 1, Len(refs) - 2))
             k == refs[Len(refs) - 1]
             val == refs[Len(refs)]
         IN  IF \E i \in 1..Len(rest) : h[rest[i].k] = h[k]
             THEN [i \in 1..Len(rest) |->
                      IF h[rest[i].k] = h[k] THEN Item(rest[i].k, val) ELSE rest[i]]
             ELSE Append(rest, Item(k, val))

RECURSIVE make_serializable(_, _)

\* make_serializable on each of refs in turn: the heap after, and the results
RECURSIVE NormalizeEach(_, _, _)
NormalizeEach(h, refs, done) ==
    IF refs = <<>> THEN [h |-> h, r |-> done]
    ELSE LET x == make_serializable(h, Head(refs))
         IN  NormalizeEach(x.h, Tail(refs), Append(done, x.r))

serializable_dict(h, r) ==
    LET xs == NormalizeEach(h, Flatten([i \in 1..Len(h[r].v) |->
                    <<h[r].v[i].k, h[r].v[i].val>>]), <<>>)
    IN  Alloc(xs.h, DictV("dict", DictOf(xs.h, xs.r)))

\* make_serializable storing the elements back into the list it was given
NormalizeListInPlace(h, r) ==
    IF h[r].t \in {"AttributeDict", "dict"} THEN serializable_dict(h, r)
    ELSE IF h[r].t = "HexBytes" THEN Alloc(h, hex(h[r].v))
    ELSE IF h[r].t = "list"
    THEN LET xs == NormalizeEach(h, h[r].v, <<>>)
         IN  [h |-> [xs.h EXCEPT ![r] = ListV(xs.r)], r |-> r]
    ELSE [h |-> h, r |-> r]
make_serializable(h, r) ==
    IF h[r].t \in {"AttributeDict", "dict"} THEN serializable_dict(h, r)
    ELSE IF h[r].t = "HexBytes" THEN Alloc(h, hex(h[r].v))
    ELSE IF h[r].t = "list"
    THEN LET xs == NormalizeEach(h, h[r].v, <<>>)
         IN  Alloc(xs.h, ListV(xs.r))
    ELSE [h |-> h, r |-> r]

\* the value of object r: the object with the values of its parts for ids
RECURSIVE Deref(_, _)
Deref(h, r) ==
    IF h[r].t \in {"AttributeDict", "dict"}
    THEN DictV(h[r].t, [i \in 1..Len(h[r].v) |->
            Item(Deref(h, h[r].v[i].k), Deref(h, h[r].v[i].val))])
    ELSE IF h[r].t \in {"list", "tuple"}
    THEN [t |-> h[r].t, v |-> [i \in 1..Len(h[r].v) |-> Deref(h, h[r].v[i])]]
    ELSE h[r]

\* the object of value d put in the heap, its parts first
RECURSIVE Load(_, _)
RECURSIVE LoadEach(_, _, _)
LoadEach(h, ds, done) ==
    IF ds = <<>> THEN [h |-> h, r |-> done]
    ELSE LET x == Load(h, Head(ds))
         IN  LoadEach(x.h, Tail(ds), Append(done, x.r))
Load(h, d) ==
    IF d.t \in {"AttributeDict", "dict"}
    THEN LET xs == LoadEach(h, Flatten([i \in 1..Len(d.v) |->
                        <<d.v[i].k, d.v[i].val>>]), <<>>)
         IN  Alloc(xs.h, DictV(d.t, [i \in 1..Len(d.v) |->
                        Item(xs.r[2 * i - 1], xs.r[2 * i])]))
    ELSE IF d.t \in {"list", "tuple"}
    THEN LET xs == LoadEach(h, d.v, <<>>)
         IN  Alloc(xs.h, [t |-> d.t, v |-> xs.r])
    ELSE Alloc(h, d)

Leaves == { StrV(<<"s">>), StrV(<<"0","x","a","b">>), HexBytesV(<<171>>), IntV(1) }
Keys == { StrV(<<"k">>), StrV(<<"0","x","a","b">>), HexBytesV(<<171>>) }

\* the values of nesting depth at most d: every container holds one value
\* of depth below d, alone or after a leaf
RECURSIVE Objects(_)
Objects(d) ==
    IF d = 0 THEN Leaves
    ELSE LET below == Objects(d - 1)
         IN  below
             \cup {[t |-> c, v |-> <<x>>] : c \in {"list", "tuple"}, x \in below}
             \cup {ListV(<<l, x>>) : l \in Leaves, x \in below}
             \cup {DictV(c, <<Item(k, x)>>) :
                      c \in {"dict", "AttributeDict"}, k \in Keys, x \in below}
             \cup {DictV("dict", <<Item(HexBytesV(<<171>>), IntV(1)), Item(k, x)>>) :
                      k \in Keys \ {HexBytesV(<<171>>)}, x \in below}

NoObject == 0

DumpIdle ==
    /\ heap = <<>> /\ data = NoObject /\ out = NoObject /\ again = NoObject
    /\ spc = "idle"

DumpInit ==
    /\ \E d \in Objects(MaxDepth) :
          /\ heap = Load(<<>>, d).h
          /\ data = Load(<<>>, d).r
    /\ out = NoObject /\ again = NoObject /\ spc = "start"

\* print(json_dumps(make_serializable(history_)))
Normalize ==
    /\ cmd = "dump" /\ spc = "start"
    /\ heap' = make_serializable(heap, data).h
    /\ out' = make_serializable(heap, data).r
    /\ spc' = "normalized"
    /\ UNCHANGED <<data, again>>
    /\ UNCHANGED <<cmd, nodeVars, walkVars, callVars, timeVars>>

\* make_serializable on what it returned
Renormalize ==
    /\ cmd = "dump" /\ spc = "normalized"
    /\ heap' = make_serializable(heap, out).h
    /\ again' = make_serializable(heap, out).r
    /\ spc' = "renormalized"
    /\ UNCHANGED <<data, out>>
    /\ UNCHANGED <<cmd, nodeVars, walkVars, callVars, timeVars>>

-----------------------------------------------------------------------------
(* eth evm move_to_time, increaseTime, mine *)

\* int(x) of a float x given in ticks: truncation toward zero
IntOf(ticks) ==
    IF ticks >= 0 THEN ticks \div TicksPerSecond
    ELSE -((-ticks) \div TicksPerSecond)

\* str(n) for n >= 0
RECURSIVE str(_)
str(n) == IF n < 10 THEN <<Digits[n + 1]>>
          ELSE str(n \div 10) \o <<Digits[(n % 10) + 1]>>

\* next(config.eth.walk_blocks()).timestamp
blockchain_time == get_block(latest).timestamp

\* duration = int(time.timestamp() - blockchain_time)
DurationAbs(t, chain) ==
    LET d == IntOf(t - chain * TicksPerSecond) IN IF d < 0 THEN -d ELSE d
Duration(t, chain) == IntOf(t - chain * TicksPerSecond)

TimeIdle ==
    /\ time = 0 /\ and_mine = FALSE /\ tpc = "idle" /\ cmdline = <<>>
    /\ rpcs = <<>> /\ error = <<>> /\ skew = 0

\* parsedatetime builds the datetime from a time tuple of whole seconds, so
\* the requested time is a whole number of seconds
TimeInit ==
    /\ \E stamp \in 0..MaxTime :
          /\ blocks = MakeBlocks(<< <<>> >>, <<stamp>>)
          /\ latest = 1
          /\ receipts = MakeReceipts(<< <<>> >>)
    /\ \E sec \in 0..MaxTime : time = sec * TicksPerSecond
    /\ and_mine \in BOOLEAN
    /\ tpc = "start" /\ cmdline = <<>> /\ rpcs = <<>> /\ error = <<>> /\ skew = 0

\* move_to_time: duration < 0, click.UsageError naming both times
MoveToTimeFails ==
    /\ cmd = "time" /\ tpc = "start"
    /\ Duration(time, blockchain_time) < 0
    /\ error' = <<blockchain_time, time>>
    /\ tpc' = "failed"
    /\ UNCHANGED <<time, and_mine, cmdline, rpcs, skew>>
    /\ UNCHANGED <<cmd, nodeVars, walkVars, callVars, dumpVars>>

\* move_to_time: run(["eth", "evm", "increaseTime", str(duration), flag])
MoveToTimeRuns ==
    /\ cmd = "time" /\ tpc = "start"
    /\ Duration(time, blockchain_time) >= 0
    /\ cmdline' = <<str(Duration(time, blockchain_time)),
                    IF and_mine THEN "--and-mine" ELSE "--dont-mine">>
    /\ tpc' = "increaseTime"
    /\ UNCHANGED <<time, and_mine, rpcs, error, skew>>
    /\ UNCHANGED <<cmd, nodeVars, walkVars, callVars, dumpVars>>

\* increaseTime: make_request("evm_increaseTime", [duration]), then
\* run(["eth", "evm", "mine"]) if and_mine
IncreaseTime ==
    /\ cmd = "time" /\ tpc = "increaseTime"
    /\ LET duration == int(cmdline[1]).v
       IN  /\ rpcs' = Append(rpcs, <<"evm_increaseTime", duration>>)
           /\ skew' = skew + duration
    /\ tpc' = IF cmdline[2] = "--and-mine" THEN "mine" ELSE "done"
    /\ UNCHANGED <<time, and_mine, cmdline, error>>
    /\ UNCHANGED <<cmd, nodeVars, walkVars, callVars, dumpVars>>

\* mine: make_request("evm_mine", []); the node adds a block at its clock
Mine ==
    /\ cmd = "time" /\ tpc = "mine"
    /\ rpcs' = Append(rpcs, <<"evm_mine", 0>>)
    /\ blocks' = [h \in (DOMAIN blocks) \cup {latest + 1} |->
                    IF h \in DOMAIN blocks THEN blocks[h]
                    ELSE [hash |-> h, parentHash |-> latest,
                          timestamp |-> blockchain_time + skew,
                          transactions |-> <<>>]]
    /\ latest' = latest + 1
    /\ skew' = 0
    /\ tpc' = "done"
    /\ UNCHANGED <<time, and_mine, cmdline, error, receipts>>
    /\ UNCHANGED <<cmd, walkVars, callVars, dumpVars>>

-----------------------------------------------------------------------------
(* The commands, each a specification of its own, and the program *)

vars == <<cmd, nodeVars, walkVars, callVars, dumpVars, timeVars>>

NodeIdle == blocks = <<>> /\ latest = ZeroHash /\ receipts = <<>>

WalkNext ==
    \/ WalkStart
    \/ WalkYieldBlock
    \/ WalkYieldTransactions
    \/ WalkBreak
    \/ WalkFetch

CallNext ==
    \/ Convert
    \/ ConvertRaises
    \/ CallMissing
    \/ CallDispatch

DumpNext ==
    \/ Normalize
    \/ Renormalize

TimeNext ==
    \/ MoveToTimeFails
    \/ MoveToTimeRuns
    \/ IncreaseTime
    \/ Mine

InitWalk == cmd = "walk" /\ WalkInit /\ CallIdle /\ DumpIdle /\ TimeIdle
SpecWalk == InitWalk /\ [][WalkNext]_vars

InitCall == cmd = "call" /\ CallInit /\ NodeIdle /\ WalkIdle /\ DumpIdle /\ TimeIdle
SpecCall == InitCall /\ [][CallNext]_vars

InitDump == cmd = "dump" /\ DumpInit /\ NodeIdle /\ WalkIdle /\ CallIdle /\ TimeIdle
SpecDump == InitDump /\ [][DumpNext]_vars

InitTime == cmd = "time" /\ TimeInit /\ WalkIdle /\ CallIdle /\ DumpIdle
SpecTime == InitTime /\ [][TimeNext]_vars

Init == InitWalk \/ InitCall \/ InitDump \/ InitTime
Next == WalkNext \/ CallNext \/ DumpNext \/ TimeNext
Spec == Init /\ [][Next]_vars

-----------------------------------------------------------------------------
(* What the chain holds, read off the node rather than off the walk *)

\* the blocks from hash h back to genesis, by parent links
RECURSIVE BlocksFrom(_)
BlocksFrom(h) ==
    IF h = ZeroHash THEN <<>> ELSE <<blocks[h]>> \o BlocksFrom(blocks[h].parentHash)

ChainLength == Cardinality(DOMAIN blocks)

\* the receipts of the first k blocks counted from the head, in walk order
ReceiptsOfFirst(k) ==
    Flatten([i \in 1..k |->
        [j \in 1..Len(BlocksFrom(latest)[i].transactions) |->
            receipts[BlocksFrom(latest)[i].transactions[j]]]])

WalkEnded == wpc \in {"exhausted", "closed"}

-----------------------------------------------------------------------------
(* C1 *)

\* C1: on a chain of N blocks above genesis, a walk_blocks() that runs to its
\* end has yielded exactly N+1 blocks: the head first, each next block the
\* one its predecessor's parentHash names, genesis last; it made N+1
\* get_block calls and no step is left to it.  A walk that has not ended has
\* a step to take and has fetched at most N+1 blocks.
C1_WalkBlocksYieldsChain ==
    cmd = "walk" =>
        /\ fetched <= ChainLength
        /\ wpc # "raised"
        /\ op = "walk_blocks" => wpc # "closed"
        /\ ~WalkEnded => ENABLED WalkNext
        /\ wpc = "exhausted" =>
            /\ Len(yielded) = ChainLength
            /\ yielded[1] = blocks[latest]
            /\ \A i \in 1..(Len(yielded) - 1) :
                    yielded[i + 1] = blocks[yielded[i].parentHash]
            /\ yielded[Len(yielded)].parentHash = ZeroHash
            /\ fetched = ChainLength
            /\ ~ENABLED WalkNext

\* a walk_blocks() over two blocks and genesis has run to its end
C1_Witness ==
    /\ op = "walk_blocks" /\ wpc = "exhausted"
    /\ ChainLength = 3 /\ Len(yielded) = 3

-----------------------------------------------------------------------------
(* C2 *)

\* the cumulative whole-block transaction counts, from the head backward
CumulativeCounts == {Len(ReceiptsOfFirst(k)) : k \in 1..ChainLength}

Min(S) == CHOOSE x \in S : \A y \in S : x <= y

\* C2: for every limit >= 0, limit = 0 included, walk_transactions(limit)
\* yields the smallest cumulative whole-block count that is >= limit, or the
\* chain's total when the chain holds fewer; with no limit, every transaction.
C2_CountIsSmallestBoundaryAtLeastLimit ==
    (op = "walk_transactions" /\ WalkEnded) =>
        Len(walked) =
            IF limit # NoInt /\ \E c \in CumulativeCounts : c >= limit[1]
            THEN Min({c \in CumulativeCounts : c >= limit[1]})
            ELSE Len(ReceiptsOfFirst(ChainLength))

-----------------------------------------------------------------------------
(* C7 *)

\* C7: take_contracts(history(A)) run to its end has yielded the
\* contractAddress of exactly those receipts of the chain, in walk order and
\* with repetitions, that involve A (as contractAddress, from or to) and
\* whose contractAddress is not null.
C7_ContractsOfHistory ==
    (op = "take_contracts" /\ wpc = "exhausted") =>
        LET all == ReceiptsOfFirst(ChainLength)
            kept == SelectSeq(all, LAMBDA r :
                        /\ address \in {r.contractAddress, r.from, r.to}
                        /\ r.contractAddress # None)
        IN  /\ Len(contracts) = Len(kept)
            /\ \A i \in 1..Len(kept) : contracts[i] = kept[i].contractAddress

\* a history that repeats a contract address and leaves receipts out: both
\* for not involving the address and for creating no contract
C7_Witness ==
    /\ op = "take_contracts" /\ wpc = "exhausted"
    /\ Len(contracts) >= 2 /\ contracts[1] = contracts[2]
    /\ \E i \in 1..Len(walked) :
          walked[i].contractAddress # None /\ ~Involves(walked[i], address)
    /\ \E i \in 1..Len(walked) :
          walked[i].contractAddress = None /\ Involves(walked[i], address)

-----------------------------------------------------------------------------
(* What a command line says, read off the tokens *)

IsNamed(token) == Contains(token, "=")

\* the text before the first "=" and the text after it
KeyOf(token) == Split(token, "=")[1]
RawOf(token) == IF IsNamed(token) THEN Split(token, "=")[2] ELSE token

\* the tokens convert was handed so far
Converted == Len(args) + (IF cpc = "raised" THEN 1 ELSE 0)

\* the names the dict arguments supply
Supplied == {args[i].key : i \in {j \in 1..Len(args) : args[j].dict}}

\* the declared names that are not empty and that no argument supplies
Absent ==
    {abi.inputs[i].name : i \in 1..Len(abi.inputs)} \ (Supplied \cup {<<>>})

-----------------------------------------------------------------------------
(* C3 *)

\* C3: call() or transact() is never executed while a non-empty declared
\* input name is absent from the arguments; the command ends by exit(1),
\* nothing executed and the absent names reported, exactly when it reaches
\* the check with some name absent.  For inputs {a, b} and the tokens
\* ["a=1"] the check fails with missing_names = {"b"}.
C3_NoCallWhileInputMissing ==
    cmd = "call" =>
        /\ executed # <<>> => Absent = {}
        /\ cpc = "exited" =>
              /\ Absent # {} /\ logged = Absent
              /\ exitStatus = Some(1) /\ executed = <<>>
        /\ cpc = "done" => Absent = {} /\ exitStatus = NoInt
        /\ (abi.inputs = InputsAB /\ tokens = << <<"a","=","1">> >> /\ Len(args) = 1) =>
              /\ missing_names(abi.inputs, args) = {<<"b">>}
              /\ ~check(abi.inputs, args)
              /\ ENABLED CallMissing \/ cpc = "exited"
              /\ ~ENABLED CallDispatch

\* inputs {a, b}, tokens ["a=1"]: the command has ended by exit(1)
C3_Witness ==
    /\ abi.inputs = InputsAB /\ tokens = << <<"a","=","1">> >>
    /\ cpc = "exited" /\ logged = {<<"b">>} /\ exitStatus = Some(1)

-----------------------------------------------------------------------------
(* C4 *)

\* C4: a call command that passes the check executes exactly one of
\* transact() and call(): with no flag, transact() exactly when
\* stateMutability is not "view"; with --transact on a "view" function,
\* click.confirm is asked once and transact() runs exactly when it answered
\* yes; with --no-transact, call().  click.confirm is asked in no other case.
C4_DispatchMode ==
    cmd = "call" =>
        /\ Len(executed) <= 1
        /\ cpc = "done" =>
            /\ Len(executed) = 1
            /\ executed[1] \in {"transact", "call"}
            /\ transact = <<>> =>
                  /\ executed[1] = "transact" <=> abi.stateMutability # "view"
                  /\ asked = <<>>
            /\ (transact = <<TRUE>> /\ abi.stateMutability = "view") =>
                  /\ Len(asked) = 1
                  /\ executed[1] = "transact" <=> asked[1]
            /\ (transact = <<TRUE>> /\ abi.stateMutability # "view") =>
                  asked = <<>>
            /\ transact = <<FALSE>> =>
                  /\ executed[1] = "call"
                  /\ asked = <<>>
        /\ cpc # "done" => executed = <<>> /\ asked = <<>>

\* --transact on a "view" function, confirmed: the transaction was sent
C4_Witness ==
    /\ cpc = "done" /\ transact = <<TRUE>> /\ abi.stateMutability = "view"
    /\ asked = <<TRUE>> /\ executed = <<"transact">>

-----------------------------------------------------------------------------
(* C5 *)

TruthyLowercase == { <<"t","r","u","e">>, <<"1">>, <<"t">>, <<"y","e","s">> }

\* C5: an argument bound to an input of type bool is true exactly when its
\* raw text, lowercased, is one of "true", "1", "t", "yes".
C5_BoolIsCaseInsensitive ==
    \A i \in 1..Len(args) :
        abi.inputs[bound[i]].type = T_bool =>
            args[i].val = BoolV(Lower(RawOf(tokens[i])) \in TruthyLowercase)

-----------------------------------------------------------------------------
(* C6 *)

\* the one rule the declared type selects, by priority
RuleOf(type) ==
    IF EndsWith(type, T_list) THEN "json"
    ELSE IF StartsWith(type, T_uint) THEN "int"
    ELSE IF type = T_bool THEN "bool"
    ELSE IF StartsWith(type, T_byte) THEN "bytes"
    ELSE "raw"

\* C6: the value of an argument is what the one rule selected by its input's
\* type makes of the raw text: json.loads for a type ending in "[]", else
\* int() for a type starting with "uint", else a boolean for "bool", else for
\* a type starting with "byte" the bytes in hexadecimal after "0x" or the
\* UTF-8 bytes of the text, else the text itself; and a conversion that
\* raises does so because the selected rule does, or because no input is
\* chosen.  "42" as uint256 is 42, "0xabcd" as bytes32 is AB CD, "[1,2]" as
\* uint256[] is the list 1, 2.
C6_CoercionRuleByType ==
    cmd = "call" =>
        /\ \A i \in 1..Len(args) :
              LET type == abi.inputs[bound[i]].type
                  raw == RawOf(tokens[i])
                  val == args[i].val
              IN  /\ RuleOf(type) = "json" => val = json_loads(raw)
                  /\ RuleOf(type) = "int" => val = int(raw)
                  /\ RuleOf(type) = "bool" => val.t = "bool"
                  /\ (RuleOf(type) = "bytes" /\ StartsWith(raw, P_0x)) =>
                        val = fromhex(SubSeq(raw, 3, Len(raw)))
                  /\ (RuleOf(type) = "bytes" /\ ~StartsWith(raw, P_0x)) =>
                        val = BytesV([k \in 1..Len(raw) |-> Ord(raw[k])])
                  /\ RuleOf(type) = "raw" => val = StrV(raw)
                  /\ (type = <<"u","i","n","t","2","5","6">> /\ raw = <<"4","2">>) =>
                        val = IntV(42)
                  /\ (type = <<"b","y","t","e","s","3","2">>
                        /\ raw = <<"0","x","a","b","c","d">>) =>
                        val = BytesV(<<171, 205>>)
        /\ (cpc = "raised" /\ Len(abi.inputs) = 1 /\ abi.inputs[1].name = <<"x">>) =>
              LET type == abi.inputs[1].type
                  raw == RawOf(tokens[1])
              IN  \/ RuleOf(type) = "json" /\ json_loads(raw).t = "raise"
                  \/ RuleOf(type) = "int" /\ int(raw).t = "raise"
                  \/ /\ RuleOf(type) = "bytes" /\ StartsWith(raw, P_0x)
                     /\ fromhex(SubSeq(raw, 3, Len(raw))).t = "raise"

\* "[1,2]" for an input of type uint256[] became the list 1, 2
C6_Witness ==
    /\ Len(args) = 1 /\ Len(abi.inputs) = 1
    /\ abi.inputs[1].type = <<"u","i","n","t","2","5","6","[","]">>
    /\ RawOf(tokens[1]) = <<"[","1",",","2","]">>
    /\ args[1].val = ListV(<<IntV(1), IntV(2)>>)

-----------------------------------------------------------------------------
(* C10 *)

\* C10 as stated: number counts the tokens converted; the i-th token, when
\* positional, is bound to the i-th declared input, and when named (it
\* contains "=") to the declared input whose name is its key.
C10_CounterAndBinding ==
    cmd = "call" =>
        /\ number = Converted
        /\ \A i \in 1..Len(args) :
              IF IsNamed(tokens[i])
              THEN abi.inputs[bound[i]].name = KeyOf(tokens[i])
              ELSE bound[i] = i

\* C10 amended: number counts the tokens converted; the i-th token, when
\* positional or named with an empty key, is bound to the i-th declared
\* input, and when named with a key that is not empty to the first declared
\* input of that name.
C10_CounterAndBindingNonEmptyKey ==
    cmd = "call" =>
        /\ number = Converted
        /\ number <= Len(tokens)
        /\ \A i \in 1..Len(args) :
              IF IsNamed(tokens[i]) /\ KeyOf(tokens[i]) # <<>>
              THEN /\ abi.inputs[bound[i]].name = KeyOf(tokens[i])
                   /\ \A j \in 1..(bound[i] - 1) :
                         abi.inputs[j].name # KeyOf(tokens[i])
              ELSE bound[i] = i

\* a positional token after a named one took the second input
C10_Witness ==
    /\ number = 2 /\ Len(args) = 2
    /\ IsNamed(tokens[1]) /\ ~IsNamed(tokens[2])
    /\ bound[2] = 2

-----------------------------------------------------------------------------
(* C8 *)

\* a value built from plain dicts, lists and scalars alone
RECURSIVE Plain(_)
Plain(d) ==
    IF d.t = "dict"
    THEN \A i \in 1..Len(d.v) : Plain(d.v[i].k) /\ Plain(d.v[i].val)
    ELSE IF d.t = "list" THEN \A i \in 1..Len(d.v) : Plain(d.v[i])
    ELSE d.t \in {"str", "int", "null"}

\* the ids of the dicts and lists that object r is made of, itself included
RECURSIVE Containers(_, _)
Containers(h, r) ==
    IF h[r].t \in {"AttributeDict", "dict"}
    THEN {r} \cup UNION {Containers(h, h[r].v[i].val) : i \in 1..Len(h[r].v)}
    ELSE IF h[r].t = "list"
    THEN {r} \cup UNION {Containers(h, h[r].v[i]) : i \in 1..Len(h[r].v)}
    ELSE {}

\* C8: given an object built from plain dicts, lists and scalars,
\* make_serializable returns an object equal to it; make_serializable of
\* what make_serializable returned equals that result, whatever the first
\* object was; and a call changes no object that existed before it: every
\* dict and list of its result is a new object.
C8_NormalizeIdempotentAndPure ==
    [][cmd = "dump" =>
        /\ data' = data
        /\ Len(heap') >= Len(heap)
        /\ \A id \in 1..Len(heap) : heap'[id] = heap[id]
        /\ spc' = "normalized" =>
              /\ Plain(Deref(heap, data)) => Deref(heap', out') = Deref(heap, data)
              /\ \A id \in Containers(heap', out') : id > Len(heap)
        /\ spc' = "renormalized" =>
              /\ out' = out
              /\ Deref(heap', again') = Deref(heap, out)
              /\ \A id \in Containers(heap', again') : id > Len(heap)]_vars

\* a plain dict holding a list went through make_serializable twice, which
\* built an equal dict each time
C8_Witness ==
    /\ spc = "renormalized" /\ Plain(Deref(heap, data))
    /\ heap[data].t = "dict" /\ heap[heap[data].v[1].val].t = "list"
    /\ Deref(heap, out) = Deref(heap, data) /\ out # data
    /\ Deref(heap, again) = Deref(heap, data) /\ again # out

-----------------------------------------------------------------------------
(* C9 *)

\* the timestamp of the head block when move_to_time starts
ChainTimeAtStart == blocks[1].timestamp

Earlier == time < ChainTimeAtStart * TicksPerSecond

\* C9: when the requested time is earlier than the chain time, move_to_time
\* ends in the UsageError naming both times, and no request is ever made of
\* the node; evm_increaseTime is requested only for a requested time that is
\* not earlier, with the seconds between the two times, never negative.
C9_EarlierTimeIsRefused ==
    cmd = "time" =>
        /\ Earlier =>
              /\ rpcs = <<>> /\ cmdline = <<>>
              /\ tpc \in {"start", "failed"}
              /\ tpc = "failed" => error = <<ChainTimeAtStart, time>>
        /\ \A i \in 1..Len(rpcs) :
              rpcs[i][1] = "evm_increaseTime" =>
                  /\ ~Earlier
                  /\ rpcs[i][2] >= 0
                  /\ rpcs[i][2] * TicksPerSecond =
                        time - ChainTimeAtStart * TicksPerSecond
        /\ rpcs # <<>> => error = <<>>

\* a request for a time before the head block's has ended in the error
C9_Witness ==
    /\ tpc = "failed" /\ Earlier
    /\ error = <<ChainTimeAtStart, time>> /\ rpcs = <<>>

=============================================================================
